---- MODULE Spec2Model ----
(***************************************************************************)
(* Model of two units of stanza:                                           *)
(*   stanza/models/classifiers/trainer.py      (Trainer: save / load /     *)
(*                                              build_optimizer)           *)
(*   stanza/utils/datasets/sentiment/process_pl_polemo2.py                 *)
(*                                             (convert_label,             *)
(*                                              read_sentences_and_labels, *)
(*                                              tokenize)                  *)
(*                                                                         *)
(* Conventions.  A Python string is a sequence of one-character strings.   *)
(* A nullable value is <<>> (None) or <<v>>.  A dict is a function whose   *)
(* DOMAIN is its key set.  A path is the sequence of its components, an    *)
(* absolute path starting with the component "/".                          *)
(***************************************************************************)
EXTENDS Integers, Sequences, FiniteSets, TLC

\* files: path -> nullable dict, the checkpoint files on disk (None: bytes
\*        torch.load cannot read);  dirs: the directories on disk;
\* saved: path -> the Trainer.save call that last wrote the file there, and
\*        whether the file it replaced held optimizer state;
\* res:   the outcome of the call in progress, Idle between calls.
\* made: the outcome of the last Trainer.build_optimizer call;
\* lines, pos, sentiment_data: read_sentences_and_labels at work, the lines
\*        of its file, the index of the line it reads next, its list so far;
\* tok:   the outcome of the last tokenize call.
\* converted: the last convert_label call, its argument and its value.
VARIABLES files, dirs, saved, res, made, lines, pos, sentiment_data,
          converted, tok

trainerVars == <<files, dirs, saved, res>>
readVars == <<lines, pos, sentiment_data, converted>>
vars == <<files, dirs, saved, res, made, lines, pos, sentiment_data,
          converted, tok>>

\* ------------------------------------------------------------------ bounds
\* the largest value of a progress counter
MaxCount == 1

\* ------------------------------------------------------------ Python values
None == <<>>
Some(v) == <<v>>
IsNone(x) == x = <<>>
Val(x) == x[1]

\* No call in progress, no call made yet
Idle == [op |-> "idle"]

\* The empty dict
Empty == [p \in {} |-> None]

\* dict.get(key, default)
Get(d, k, default) == IF k \in DOMAIN d THEN d[k] ELSE default

\* ------------------------------------------------------------------- strings
UpperChars == <<"A","B","C","D","E","F","G","H","I","J","K","L","M",
                "N","O","P","Q","R","S","T","U","V","W","X","Y","Z">>
LowerChars == <<"a","b","c","d","e","f","g","h","i","j","k","l","m",
                "n","o","p","q","r","s","t","u","v","w","x","y","z">>

\* str.lower() on one character
LowerChar(c) ==
    IF \E i \in DOMAIN UpperChars : UpperChars[i] = c
    THEN LowerChars[CHOOSE i \in DOMAIN UpperChars : UpperChars[i] = c]
    ELSE c

\* str.lower()
Lower(s) == [i \in DOMAIN s |-> LowerChar(s[i])]

\* --------------------------------------------------------------------- paths
IsAbs(p) == Len(p) > 0 /\ p[1] = "/"

\* os.path.join(a, b)
Join(a, b) == IF IsAbs(b) THEN b ELSE a \o b

\* os.path.split(p)[0]
SplitHead(p) == IF Len(p) = 0 THEN <<>> ELSE SubSeq(p, 1, Len(p) - 1)

\* os.path.exists(p)
Exists(p) == p \in DOMAIN files \/ p \in dirs

Prefixes(p) == { SubSeq(p, 1, n) : n \in 1..Len(p) }

\* os.makedirs(d, exist_ok=True): "ok", or the error it raises
MakedirsStatus(d) ==
    IF d = <<>> THEN "FileNotFoundError"
    ELSE IF \E q \in Prefixes(d) : q \in DOMAIN files THEN "OSError"
    ELSE "ok"

\* ------------------------------------------------------- optimizer names
SGD == <<"s","g","d">>
ADADELTA == <<"a","d","a","d","e","l","t","a">>
MADGRAD == <<"m","a","d","g","r","a","d">>

\* build_optimizer comparing args.optim as given, its case kept
build_optimizer_case_kept(optim, madgradInstalled) ==
    IF optim = SGD
    THEN [status |-> "ok", optimizer |-> Some([kind |-> SGD, state |-> 0])]
    ELSE IF optim = ADADELTA
    THEN [status |-> "ok", optimizer |-> Some([kind |-> ADADELTA, state |-> 0])]
    ELSE IF optim = MADGRAD
    THEN IF madgradInstalled
         THEN [status |-> "ok", optimizer |-> Some([kind |-> MADGRAD, state |-> 0])]
         ELSE [status |-> "ModuleNotFoundError", optimizer |-> None]
    ELSE [status |-> "ValueError", optimizer |-> None]

\* Trainer.build_optimizer(model, args): the optimizer it returns, or the
\* error it raises.  madgradInstalled: whether "import madgrad" succeeds.
\* A fresh optimizer has taken no step: state 0.
build_optimizer(optim, madgradInstalled) ==
    IF Lower(optim) = SGD
    THEN [status |-> "ok", optimizer |-> Some([kind |-> SGD, state |-> 0])]
    ELSE IF Lower(optim) = ADADELTA
    THEN [status |-> "ok", optimizer |-> Some([kind |-> ADADELTA, state |-> 0])]
    ELSE IF Lower(optim) = MADGRAD
    THEN IF madgradInstalled
         THEN [status |-> "ok", optimizer |-> Some([kind |-> MADGRAD, state |-> 0])]
         ELSE [status |-> "ModuleNotFoundError", optimizer |-> None]
    ELSE [status |-> "ValueError", optimizer |-> None]

\* ------------------------------------------------------------ the classifier
\* The state dict of a model: the trained weights and the pretrained modules
\* (charlm, bert) it embeds.
StateDict(m) == [weights |-> m.weights, modules |-> m.modules]

\* model.get_params(skip_modules): the pretrained modules are left out of
\* the saved state when skip_modules is set.
get_params(m, skip_modules) ==
    [model       |-> IF skip_modules
                     THEN [k \in {"weights"} |-> StateDict(m)[k]]
                     ELSE StateDict(m),
     config      |-> m.config,
     labels      |-> m.labels,
     extra_vocab |-> m.extra_vocab]

\* CNNClassifier(...): a new model, its weights untrained (0) and its
\* pretrained modules the ones the foundation cache hands out.
CNNClassifier(config, labels, extra_vocab) ==
    [config |-> config, labels |-> labels, extra_vocab |-> extra_vocab,
     weights |-> 0, modules |-> "foundation"]

\* model.load_state_dict(sd, strict=False): the keys present are restored,
\* the others keep their value.
load_state_dict(m, sd) ==
    [m EXCEPT !.weights = Get(sd, "weights", m.weights),
              !.modules = Get(sd, "modules", m.modules)]

\* Trainer(model, optimizer, epochs_trained, global_step, best_score)
Trainer(model, optimizer, epochs_trained, global_step, best_score) ==
    [model |-> model, optimizer |-> optimizer, epochs_trained |-> epochs_trained,
     global_step |-> global_step, best_score |-> best_score]

\* Trainer.load_pretrain(args, foundation_cache): "ok" or the error raised
load_pretrain(args) ==
    IF args.wordvec THEN "ok" ELSE "RuntimeError"

\* utils.load_elmo(args.elmo_model) if args.use_elmo else None: the module
\* binds no name utils, so the call raises NameError.
load_elmo(args) ==
    IF args.use_elmo THEN "NameError" ELSE "ok"

\* ------------------------------------------------------------ Trainer.save
\* The record of a save that overlooks its epochs_trained argument
SaveRecordOwnEpochs(self, epochs_arg, skip_modules, save_optimizer) ==
    LET params == [params         |-> get_params(self.model, skip_modules),
                   epochs_trained |-> self.epochs_trained,
                   global_step    |-> self.global_step,
                   best_score     |-> self.best_score]
    IN  IF save_optimizer /\ ~IsNone(self.optimizer)
        THEN [k \in DOMAIN params \cup {"optimizer_state_dict"} |->
                 IF k = "optimizer_state_dict" THEN Some(Val(self.optimizer))
                 ELSE params[k]]
        ELSE params

\* The record of a save that writes the epoch count as the global step
SaveRecordStepFromEpochs(self, epochs_arg, skip_modules, save_optimizer) ==
    LET epochs_trained == IF IsNone(epochs_arg) THEN self.epochs_trained
                          ELSE Val(epochs_arg)
        params == [params         |-> get_params(self.model, skip_modules),
                   epochs_trained |-> epochs_trained,
                   global_step    |-> epochs_trained,
                   best_score     |-> self.best_score]
    IN  IF save_optimizer /\ ~IsNone(self.optimizer)
        THEN [k \in DOMAIN params \cup {"optimizer_state_dict"} |->
                 IF k = "optimizer_state_dict" THEN Some(Val(self.optimizer))
                 ELSE params[k]]
        ELSE params

\* The record Trainer.save builds (the dict named params in the code)
SaveRecord(self, epochs_arg, skip_modules, save_optimizer) ==
    LET epochs_trained == IF IsNone(epochs_arg) THEN self.epochs_trained
                          ELSE Val(epochs_arg)
        params == [params         |-> get_params(self.model, skip_modules),
                   epochs_trained |-> epochs_trained,
                   global_step    |-> self.global_step,
                   best_score     |-> self.best_score]
    IN  IF save_optimizer /\ ~IsNone(self.optimizer)
        THEN [k \in DOMAIN params \cup {"optimizer_state_dict"} |->
                 IF k = "optimizer_state_dict" THEN Some(Val(self.optimizer))
                 ELSE params[k]]
        ELSE params

\* A write that updates the dict already in the file, keeping its other keys
WriteFileUpdating(fs, filename, record) ==
    [p \in DOMAIN fs \cup {filename} |->
        IF p # filename THEN fs[p]
        ELSE IF filename \in DOMAIN fs /\ ~IsNone(fs[filename])
        THEN Some([k \in DOMAIN Val(fs[filename]) \cup DOMAIN record |->
                      IF k \in DOMAIN record THEN record[k]
                      ELSE Val(fs[filename])[k]])
        ELSE Some(record)]

\* torch.save(params, filename): the file at filename is replaced by the
\* serialized record
WriteFile(fs, filename, record) ==
    [p \in DOMAIN fs \cup {filename} |->
        IF p = filename THEN Some(record) ELSE fs[p]]

\* The directories os.makedirs(d) has made by the time it returns or raises
MadeDirs(d) ==
    { q \in Prefixes(d) : \A r \in Prefixes(q) : r \notin DOMAIN files }

\* "ok" or the error Trainer.save raises
SaveStatus(filename) ==
    IF MakedirsStatus(SplitHead(filename)) # "ok"
    THEN MakedirsStatus(SplitHead(filename))
    ELSE IF filename \in dirs \cup MadeDirs(SplitHead(filename))
    THEN "OSError"
    ELSE "ok"

\* The progress counters of the dict persisted at path; None when there
\* is no readable dict
PersistedCounters(path) ==
    IF path \in DOMAIN files /\ ~IsNone(files[path])
    THEN Some([epochs_trained |-> Get(Val(files[path]), "epochs_trained", 0),
               global_step    |-> Get(Val(files[path]), "global_step", 0)])
    ELSE None

\* Whether the dict persisted at path holds a non-null optimizer_state_dict
HasOptimizerState(path) ==
    /\ path \in DOMAIN files
    /\ ~IsNone(files[path])
    /\ ~IsNone(Get(Val(files[path]), "optimizer_state_dict", None))

\* self.save(filename, epochs_trained, skip_modules, save_optimizer)
Save(self, filename, epochs_arg, skip_modules, save_optimizer) ==
    LET status == SaveStatus(filename)
        call == [self |-> self, epochs_arg |-> epochs_arg,
                 skip_modules |-> skip_modules,
                 save_optimizer |-> save_optimizer,
                 hadOptimizer |-> HasOptimizerState(filename)]
    IN  /\ res.op = "idle"
        /\ dirs' = IF status = "FileNotFoundError" THEN dirs
                   ELSE dirs \cup MadeDirs(SplitHead(filename))
        /\ files' = IF status = "ok"
                    THEN WriteFile(files, filename,
                             SaveRecord(self, epochs_arg, skip_modules,
                                        save_optimizer))
                    ELSE files
        /\ saved' = IF status = "ok"
                    THEN [p \in DOMAIN saved \cup {filename} |->
                             IF p = filename THEN call ELSE saved[p]]
                    ELSE saved
        /\ res' = [op |-> "save", status |-> status, filename |-> filename,
                   before |-> PersistedCounters(filename)]
        /\ UNCHANGED <<made, readVars, tok>>

\* ------------------------------------------------------------ Trainer.load
\* A load that looks under args.save_dir first
LoadPathSaveDirFirst(filename, args) ==
    IF Exists(Join(args.save_dir, filename))
    THEN Some(Join(args.save_dir, filename))
    ELSE IF Exists(filename) THEN Some(filename)
    ELSE None

\* The path Trainer.load reads: filename, else the fallback under
\* args.save_dir; None when neither exists.
LoadPath(filename, args) ==
    IF ~Exists(filename)
    THEN IF Exists(Join(args.save_dir, filename))
         THEN Some(Join(args.save_dir, filename))
         ELSE None
    ELSE Some(filename)

\* A reader that knows the nested layout alone
ModelParamsNestedOnly(checkpoint) ==
    IF "params" \notin DOMAIN checkpoint THEN None
    ELSE Some(checkpoint["params"])

\* The model parameters of a checkpoint, in either layout; None when a
\* key of the flat layout is missing (KeyError).
ModelParams(checkpoint) ==
    IF "params" \notin DOMAIN checkpoint
    THEN IF {"model", "config", "labels", "extra_vocab"} \subseteq DOMAIN checkpoint
         THEN Some([model       |-> checkpoint["model"],
                    config      |-> checkpoint["config"],
                    labels      |-> checkpoint["labels"],
                    extra_vocab |-> checkpoint["extra_vocab"]])
         ELSE None
    ELSE Some(checkpoint["params"])

\* A load that builds the optimizer and leaves the persisted state unread
RestoreOptimizerUnread(built, checkpoint) == built

\* The optimizer Trainer.load hands to the trainer, once build_optimizer
\* has returned built
RestoreOptimizer(built, checkpoint) ==
    IF ~IsNone(Get(checkpoint, "optimizer_state_dict", None))
    THEN Some([kind  |-> Val(built).kind,
               state |-> Val(checkpoint["optimizer_state_dict"]).state])
    ELSE built

\* The outcome of Trainer.load(filename, args, load_optimizer=...)
LoadResult(filename, args, load_optimizer, madgradInstalled) ==
    LET path == LoadPath(filename, args)
        base == [op |-> "load", status |-> "ok", filename |-> filename,
                 save_dir |-> args.save_dir, load_optimizer |-> load_optimizer,
                 readFrom |-> path, deserialized |-> FALSE,
                 acquired |-> FALSE, notice |-> FALSE, trainer |-> None]
    IN
    IF IsNone(path) THEN [base EXCEPT !.status = "FileNotFoundError"]
    ELSE IF Val(path) \notin DOMAIN files
    THEN [base EXCEPT !.status = "OSError", !.deserialized = TRUE]
    ELSE IF IsNone(files[Val(path)])
    THEN [base EXCEPT !.status = "UnpicklingError", !.deserialized = TRUE]
    ELSE
    LET checkpoint == Val(files[Val(path)])
        epochs_trained == Get(checkpoint, "epochs_trained", 0)
        global_step == Get(checkpoint, "global_step", 0)
        best_score == Get(checkpoint, "best_score", None)
        model_params == ModelParams(checkpoint)
        read == [base EXCEPT !.deserialized = TRUE]
    IN
    IF IsNone(model_params) THEN [read EXCEPT !.status = "KeyError"]
    ELSE IF load_pretrain(args) # "ok"
    THEN [read EXCEPT !.status = load_pretrain(args), !.acquired = TRUE]
    ELSE IF load_elmo(args) # "ok"
    THEN [read EXCEPT !.status = load_elmo(args), !.acquired = TRUE]
    ELSE IF Val(model_params).config.model_type # "CNN"
    THEN [read EXCEPT !.status = "ValueError", !.acquired = TRUE]
    ELSE
    LET model == load_state_dict(
                     CNNClassifier(Val(model_params).config,
                                   Val(model_params).labels,
                                   Val(model_params).extra_vocab),
                     Val(model_params).model)
        built == build_optimizer(args.optim, madgradInstalled)
    IN
    IF ~load_optimizer
    THEN [read EXCEPT !.acquired = TRUE,
              !.trainer = Some(Trainer(model, None, epochs_trained,
                                       global_step, best_score))]
    ELSE IF built.status # "ok"
    THEN [read EXCEPT !.status = built.status, !.acquired = TRUE]
    ELSE [read EXCEPT !.acquired = TRUE,
              !.notice = IsNone(Get(checkpoint, "optimizer_state_dict", None)),
              !.trainer = Some(Trainer(model,
                                       RestoreOptimizer(built.optimizer, checkpoint),
                                       epochs_trained, global_step, best_score))]

\* Trainer.load(filename, args, load_optimizer=...)
Load(filename, args, load_optimizer, madgradInstalled) ==
    /\ res.op = "idle"
    /\ res' = LoadResult(filename, args, load_optimizer, madgradInstalled)
    /\ UNCHANGED <<files, dirs, saved, made, readVars, tok>>

\* The call returns to its caller
Return ==
    /\ res.op # "idle"
    /\ res' = [op |-> "idle"]
    /\ UNCHANGED <<files, dirs, saved, made, readVars, tok>>

\* ------------------------------------------------- inputs of the Trainer calls
Counters == 0..MaxCount

Config(model_type) == [model_type |-> model_type]

Labels == <<"negative", "positive">>
ExtraVocab == <<"zzz">>

\* The models trained here, which differ in their weights
Models ==
    { [config |-> Config("CNN"), labels |-> Labels, extra_vocab |-> ExtraVocab,
       weights |-> w, modules |-> "foundation"] : w \in {1, 2} }

\* A model built from args that name another model type
OtherModel ==
    [config |-> Config("CONSTITUENCY"), labels |-> Labels,
     extra_vocab |-> ExtraVocab, weights |-> 1, modules |-> "foundation"]

\* None, or an optimizer that has taken a step
Optimizers == { None, Some([kind |-> SGD, state |-> 1]) }

BestScores == { None, Some(1) }

\* The Trainer objects save is called on
Trainers ==
    { Trainer(m, o, e, g, b) :
        m \in Models, o \in Optimizers, e \in Counters, g \in Counters,
        b \in BestScores }

EpochsArgs == { None } \cup { Some(e) : e \in Counters }

Filenames == { <<"m">>, <<"d", "m">> }
LoadFilenames == Filenames \cup { <<"/", "m">> }

ArgsSet ==
    [save_dir : { <<"d">> },
     optim    : { SGD, <<"S","G","D">>, MADGRAD, <<"a","d","a","m">> },
     use_elmo : BOOLEAN,
     wordvec  : BOOLEAN]

\* ------------------------------------------- checkpoint files found on disk
\* A checkpoint in the older flat layout, all its optional fields present
FlatFull ==
    [model |-> [weights |-> 3], config |-> Config("CNN"), labels |-> Labels,
     extra_vocab |-> ExtraVocab, epochs_trained |-> 1, global_step |-> 1,
     best_score |-> Some(1), optimizer_state_dict |-> None]

\* The same checkpoint in the current nested layout
Nested(flat) ==
    [k \in (DOMAIN flat \ {"model", "config", "labels", "extra_vocab"})
           \cup {"params"} |->
        IF k = "params"
        THEN [model |-> flat["model"], config |-> flat["config"],
              labels |-> flat["labels"], extra_vocab |-> flat["extra_vocab"]]
        ELSE flat[k]]

Restrict(d, keys) == [k \in keys |-> d[k]]

OptionalKeys == {"epochs_trained", "global_step", "best_score"}
FlatKeys == {"model", "config", "labels", "extra_vocab"}

\* Flat checkpoints holding every key of the flat layout
FlatCheckpoints ==
    { Restrict(FlatFull, FlatKeys \cup K) : K \in SUBSET OptionalKeys }
    \cup { FlatFull }
    \cup { [FlatFull EXCEPT !["config"] = Config("CONSTITUENCY")] }

\* Flat checkpoints with a key of the flat layout missing
BrokenCheckpoints ==
    { Restrict(FlatFull, (FlatKeys \ {k}) \cup OptionalKeys) : k \in FlatKeys }

\* What a file not written by Trainer.save may hold: unreadable bytes, or
\* a checkpoint of either layout
FoundContents ==
    { None } \cup { Some(c) : c \in FlatCheckpoints \cup BrokenCheckpoints }
             \cup { Some(Nested(c)) : c \in FlatCheckpoints }

\* Trainers as build_new_model returns them: nothing trained yet
NewTrainers ==
    { Trainer(m, o, 0, 0, None) :
        m \in { mm \in Models : mm.weights = 1 } \cup { OtherModel },
        o \in Optimizers }

\* The variables a specification leaves alone
NoTrainer == files = Empty /\ dirs = {} /\ saved = Empty /\ res = Idle
NoBuild == made = Idle
NoRead ==
    lines = <<>> /\ pos = 1 /\ sentiment_data = <<>> /\ converted = Idle
NoTokenize == tok = Idle

\* An empty disk, or one where a file named d stands where the save
\* directory would go
InitTrainer ==
    /\ dirs = {}
    /\ saved = Empty
    /\ res = Idle
    /\ \/ files = Empty
       \/ files = [p \in {<<"d">>} |-> None]
    /\ NoBuild /\ NoRead /\ NoTokenize

\* A disk where an earlier release or another tool left one file m in the
\* working directory
InitFound ==
    /\ dirs = {}
    /\ saved = Empty
    /\ res = Idle
    /\ \/ files = Empty
       \/ \E c \in FoundContents : files = [p \in {<<"m">>} |-> c]
    /\ NoBuild /\ NoRead /\ NoTokenize

\* The calls a program makes, its trainers drawn from T
NextOver(T) ==
    \/ \E self \in T, filename \in Filenames, e \in EpochsArgs,
          skip_modules \in BOOLEAN, save_optimizer \in BOOLEAN :
          Save(self, filename, e, skip_modules, save_optimizer)
    \/ \E filename \in LoadFilenames, args \in ArgsSet,
          load_optimizer \in BOOLEAN, madgradInstalled \in BOOLEAN :
          Load(filename, args, load_optimizer, madgradInstalled)
    \/ Return

NextTrainer == NextOver(Trainers)

NextFound == NextOver(NewTrainers)

\* Checkpoints written and read back by one run
Spec == InitTrainer /\ [][NextTrainer]_vars

\* Checkpoints found on disk, beside those a new trainer writes
SpecFound == InitFound /\ [][NextFound]_vars

\* ------------------------------------------------- Trainer.build_optimizer
\* the longest optimizer name enumerated letter by letter
MaxNameLen == 3

NameChars == {"s", "g", "d", "S", "x"}

RECURSIVE StringsUpTo(_, _)
\* The strings over chars of length at most n
StringsUpTo(chars, n) ==
    IF n = 0 THEN { <<>> }
    ELSE LET shorter == StringsUpTo(chars, n - 1)
         IN  shorter \cup { Append(w, c) : w \in shorter, c \in chars }

\* The values of args.optim tried
OptimNames ==
    StringsUpTo(NameChars, MaxNameLen)
    \cup { ADADELTA, MADGRAD,
           <<"S","G","D">>, <<"s","G","d">>,
           <<"A","d","a","d","e","l","t","a">>,
           <<"M","A","D","G","R","A","D">>,
           <<"a","d","a","m">>,
           <<"s","g","d"," ">>,
           <<"a","d","a","m","w">> }

\* Trainer.build_optimizer(model, args), called with args.optim = optim
BuildOptimizer(optim, madgradInstalled) ==
    /\ made' = [op |-> "build", optim |-> optim,
                 madgradInstalled |-> madgradInstalled,
                 result |-> build_optimizer(optim, madgradInstalled)]
    /\ UNCHANGED <<trainerVars, readVars, tok>>

InitOptim == NoTrainer /\ NoBuild /\ NoRead /\ NoTokenize

NextOptim ==
    \E optim \in OptimNames, madgradInstalled \in BOOLEAN :
        BuildOptimizer(optim, madgradInstalled)

SpecOptim == InitOptim /\ [][NextOptim]_vars

\* ------------------------------------------------------ process_pl_polemo2
Z_MINUS_M == <<"_","_","l","a","b","e","l","_","_","z","_","m","i","n","u","s","_","m">>
Z_ZERO == <<"_","_","l","a","b","e","l","_","_","z","_","z","e","r","o">>
Z_AMB == <<"_","_","l","a","b","e","l","_","_","z","_","a","m","b">>
Z_PLUS_M == <<"_","_","l","a","b","e","l","_","_","z","_","p","l","u","s","_","m">>

\* convert_label with 0 for default
convert_label_default_zero(label) ==
    IF label = Z_MINUS_M THEN 0
    ELSE IF label = Z_ZERO THEN 1
    ELSE IF label = Z_AMB THEN 2
    ELSE IF label = Z_PLUS_M THEN 3
    ELSE 0

\* convert_label(label): label_map.get(label, -1)
convert_label(label) ==
    IF label = Z_MINUS_M THEN 0
    ELSE IF label = Z_ZERO THEN 1
    ELSE IF label = Z_AMB THEN 2
    ELSE IF label = Z_PLUS_M THEN 3
    ELSE -1

\* The characters str.strip() removes
Whitespace == {" ", "\t", "\n", "\r", "\f"}

RECURSIVE LStrip(_)
LStrip(s) ==
    IF Len(s) > 0 /\ s[1] \in Whitespace THEN LStrip(Tail(s)) ELSE s

RECURSIVE RStrip(_)
RStrip(s) ==
    IF Len(s) > 0 /\ s[Len(s)] \in Whitespace
    THEN RStrip(SubSeq(s, 1, Len(s) - 1))
    ELSE s

\* str.strip()
Strip(s) == RStrip(LStrip(s))

RECURSIVE RFind(_, _, _)
\* The last index at or below i where s holds c; 0 when there is none
RFind(s, c, i) ==
    IF i = 0 THEN 0
    ELSE IF s[i] = c THEN i
    ELSE RFind(s, c, i - 1)

\* line.split(" ", 1): the cut made at the first space
SplitAtFirstSpace(line) ==
    IF RFind(line, " ", Len(line)) = 0 THEN << line >>
    ELSE LET i == CHOOSE i \in DOMAIN line :
                     line[i] = " " /\ \A j \in 1..(i - 1) : line[j] # " "
         IN  << SubSeq(line, 1, i - 1), SubSeq(line, i + 1, Len(line)) >>

\* line.rsplit(" ", 1)
RSplit(line) ==
    LET i == RFind(line, " ", Len(line))
    IN  IF i = 0 THEN << line >>
        ELSE << SubSeq(line, 1, i - 1), SubSeq(line, i + 1, Len(line)) >>

\* SentimentDatum(sentiment, text)
SentimentDatum(sentiment, text) == [sentiment |-> sentiment, text |-> text]

RECURSIVE SplitLines(_)
\* The lines "for line in fin" yields, each with its newline
SplitLines(text) ==
    IF Len(text) = 0 THEN <<>>
    ELSE IF \E i \in DOMAIN text : text[i] = "\n"
    THEN LET i == CHOOSE i \in DOMAIN text :
                     /\ text[i] = "\n"
                     /\ \A j \in 1..(i - 1) : text[j] # "\n"
         IN  << SubSeq(text, 1, i) >> \o SplitLines(SubSeq(text, i + 1, Len(text)))
    ELSE << text >>

\* One turn of the loop of read_sentences_and_labels, on the line at pos
ReadLine ==
    /\ pos <= Len(lines)
    /\ LET line == lines[pos]
           pieces == RSplit(line)
       IN  IF Len(pieces) < 2
           THEN UNCHANGED <<sentiment_data, converted>>
           ELSE LET text == pieces[1]
                    label == convert_label(Strip(pieces[2]))
                IN  /\ converted' = [op |-> "convert", label |-> Strip(pieces[2]),
                                     value |-> label]
                    /\ sentiment_data' =
                          IF label = -1 THEN sentiment_data
                          ELSE Append(sentiment_data,
                                      SentimentDatum(label, Strip(text)))
    /\ pos' = pos + 1
    /\ UNCHANGED <<lines, trainerVars, made, tok>>

\* the most lines put before, and after, the line under study
MaxContext == 1

\* The pieces the line under study is put together from
LineTexts == { <<>>, <<"a">>, <<"a", " ", "b">> }
LineSeparators == { <<>>, <<" ">>, <<"\t">>, <<" ", "\t">> }
LineLabels == { Z_MINUS_M, Z_ZERO, Z_AMB, Z_PLUS_M,
                <<"_","_","l","a","b","e","l","_","_","z","_","m","i","n","u","s">>, <<>> }
LineEnds == { <<"\n">>, <<" ", "\n">>, <<>> }

StudiedLines ==
    { t \o s \o l \o e :
        t \in LineTexts, s \in LineSeparators, l \in LineLabels, e \in LineEnds }

\* The lines around it: one with a label, one without
ContextLines == { <<"c", " ">> \o Z_PLUS_M \o <<"\n">>, <<"c", "\n">> }

RECURSIVE Concatenations(_, _)
\* The texts made of at most n of the given lines
Concatenations(ls, n) ==
    IF n = 0 THEN { <<>> }
    ELSE LET shorter == Concatenations(ls, n - 1)
         IN  shorter \cup { w \o l : w \in shorter, l \in ls }

\* The contents of the files read
FileTexts ==
    { before \o line \o after :
        before \in Concatenations(ContextLines, MaxContext),
        line \in StudiedLines,
        after \in Concatenations(ContextLines, MaxContext) }

InitRead ==
    /\ \E text \in FileTexts : lines = SplitLines(text)
    /\ pos = 1
    /\ sentiment_data = <<>>
    /\ converted = Idle
    /\ NoTrainer /\ NoBuild /\ NoTokenize

NextRead == ReadLine

SpecRead == InitRead /\ [][NextRead]_vars

\* ---------------------------------------------------------------- tokenize
\* The words of the raw texts tokenized
Words(text) ==
    IF text = "x y" THEN << "x", "y" >>
    ELSE IF text = "z" THEN << "z" >>
    ELSE << >>

RawTexts == { "", "z", "x y" }

\* The ways the pipeline may cut words into sentences, each sentence the
\* list of its tokens: a text without words has no sentence
Segmentations(words) ==
    IF Len(words) = 0 THEN { << >> }
    ELSE { << words >> }
         \cup { << SubSeq(words, 1, k), SubSeq(words, k + 1, Len(words)) >> :
                  k \in 1..(Len(words) - 1) }

RECURSIVE Flatten(_)
\* The concatenation of a list of lists
Flatten(ss) == IF Len(ss) = 0 THEN << >> ELSE Head(ss) \o Flatten(Tail(ss))

\* tokenize reading sentence 0 of the single document for every datum
tokenize_sentence_zero(data, asList, segs) ==
    IF asList
    THEN IF \E i \in DOMAIN data : Len(segs[i]) = 0
         THEN [status |-> "IndexError", result |-> << >>]
         ELSE [status |-> "ok",
               result |-> [i \in DOMAIN data |->
                              SentimentDatum(data[i].sentiment, segs[i][1])]]
    ELSE LET sentences == Flatten(segs)
         IN  IF Len(sentences) < Len(data)
             THEN [status |-> "IndexError", result |-> << >>]
             ELSE [status |-> "ok",
                   result |-> [i \in DOMAIN data |->
                                  SentimentDatum(data[i].sentiment, sentences[1])]]

\* tokenize(sentiment_data, pipe), where pipe cuts the i-th text into the
\* sentences segs[i] and returns a list of documents (asList) or one
\* document holding all the sentences
tokenize(data, asList, segs) ==
    IF asList
    THEN IF \E i \in DOMAIN data : Len(segs[i]) = 0
         THEN [status |-> "IndexError", result |-> << >>]
         ELSE [status |-> "ok",
               result |-> [i \in DOMAIN data |->
                              SentimentDatum(data[i].sentiment, segs[i][1])]]
    ELSE LET sentences == Flatten(segs)
         IN  IF Len(sentences) < Len(data)
             THEN [status |-> "IndexError", result |-> << >>]
             ELSE [status |-> "ok",
                   result |-> [i \in DOMAIN data |->
                                  SentimentDatum(data[i].sentiment, sentences[i])]]

\* A call of tokenize
Tokenize(data, asList, segs) ==
    /\ tok' = [op |-> "tokenize", data |-> data, asList |-> asList,
               segs |-> segs, out |-> tokenize(data, asList, segs)]
    /\ UNCHANGED <<trainerVars, made, readVars>>

\* the longest list of data tokenized
MaxData == 2

RawData == { SentimentDatum(l, t) : l \in {0, 3}, t \in RawTexts }

RECURSIVE ListsUpTo(_, _)
\* The lists of at most n elements of S
ListsUpTo(S, n) ==
    IF n = 0 THEN { << >> }
    ELSE LET shorter == ListsUpTo(S, n - 1)
         IN  shorter \cup { Append(w, x) : w \in shorter, x \in S }

\* What the pipeline may return for the texts of data
PipeOutputs(data) ==
    { segs \in [DOMAIN data -> UNION { Segmentations(Words(t)) : t \in RawTexts }] :
        \A i \in DOMAIN data : segs[i] \in Segmentations(Words(data[i].text)) }

InitTokenize == NoTrainer /\ NoBuild /\ NoRead /\ NoTokenize

NextTokenize ==
    \E data \in ListsUpTo(RawData, MaxData), asList \in BOOLEAN :
        \E segs \in PipeOutputs(data) : Tokenize(data, asList, segs)

SpecTokenize == InitTokenize /\ [][NextTokenize]_vars

\* ------------------------------------------------------------------ claims
\* What a load returned
Loaded == res.op = "load" /\ res.status = "ok"
LoadedTrainer == Val(res.trainer)
\* The save call that wrote the file a load read
LoadedFromSave == Loaded /\ Val(res.readFrom) \in DOMAIN saved
SavedCall == saved[Val(res.readFrom)]

\* The epochs_trained a save call persists
EffectiveEpochs(call) ==
    IF IsNone(call.epochs_arg) THEN call.self.epochs_trained
    ELSE Val(call.epochs_arg)

SameModelParams(t, call) ==
    get_params(t.model, call.skip_modules)
        = get_params(call.self.model, call.skip_modules)

\* C1 as stated: a load after a save returns a trainer whose epochs_trained,
\* global_step and best_score are those of the trainer that was saved, and
\* whose model params are the saved ones.
C1_RoundTripOfTrainer ==
    (LoadedFromSave /\ Val(res.readFrom) = res.filename) =>
        /\ LoadedTrainer.epochs_trained = SavedCall.self.epochs_trained
        /\ LoadedTrainer.global_step = SavedCall.self.global_step
        /\ LoadedTrainer.best_score = SavedCall.self.best_score
        /\ SameModelParams(LoadedTrainer, SavedCall)

\* C1 amended: a load that returns after a save returns a trainer whose
\* epochs_trained is the epochs_trained argument of the save (the saved
\* trainer's counter when the argument was omitted), whose global_step and
\* best_score are the saved trainer's, and whose model params are the saved
\* ones.
C1_RoundTrip ==
    LoadedFromSave =>
        /\ LoadedTrainer.epochs_trained = EffectiveEpochs(SavedCall)
        /\ LoadedTrainer.global_step = SavedCall.self.global_step
        /\ LoadedTrainer.best_score = SavedCall.self.best_score
        /\ SameModelParams(LoadedTrainer, SavedCall)

C1_Witness ==
    /\ LoadedFromSave
    /\ ~IsNone(SavedCall.epochs_arg)
    /\ Val(SavedCall.epochs_arg) # SavedCall.self.epochs_trained
    /\ LoadedTrainer.epochs_trained = Val(SavedCall.epochs_arg)
    /\ LoadedTrainer.model.weights = 2

\* C2: load raises FileNotFoundError whenever neither filename nor
\* join(args.save_dir, filename) exists, before anything is deserialized or
\* any external resource acquired; when only the fallback exists no not-found
\* error is raised and the fallback is read; when filename exists it is read,
\* whether or not the fallback exists too.
C2_NotFound ==
    res.op = "load" =>
        LET fallback == Join(res.save_dir, res.filename) IN
        /\ (~Exists(res.filename) /\ ~Exists(fallback)) =>
               /\ res.status = "FileNotFoundError"
               /\ ~res.deserialized
               /\ ~res.acquired
               /\ IsNone(res.trainer)
        /\ (~Exists(res.filename) /\ Exists(fallback)) =>
               /\ res.status # "FileNotFoundError"
               /\ res.deserialized
               /\ res.readFrom = Some(fallback)
        /\ Exists(res.filename) =>
               /\ res.status # "FileNotFoundError"
               /\ res.deserialized
               /\ res.readFrom = Some(res.filename)

C2_Witness ==
    /\ res.op = "load"
    /\ ~Exists(res.filename)
    /\ Exists(Join(res.save_dir, res.filename))
    /\ res.status = "ok"
    /\ res.readFrom = Some(<<"d", "m">>)

\* The other cases of C2 happen too
C2_WitnessNeither ==
    /\ res.op = "load"
    /\ ~Exists(res.filename)
    /\ ~Exists(Join(res.save_dir, res.filename))
    /\ res.status = "FileNotFoundError"

C2_WitnessBoth ==
    /\ res.op = "load"
    /\ res.filename = <<"m">>
    /\ Exists(res.filename)
    /\ Exists(Join(res.save_dir, res.filename))
    /\ res.readFrom = Some(<<"m">>)

\* What a save wrote
Saved == res.op = "save" /\ res.status = "ok"
NewCounters == Val(PersistedCounters(res.filename))

\* C7 as stated: from one save to the next at a path, the persisted
\* epochs_trained and global_step are non-negative and never decrease.
C7_NeverDecrease ==
    (Saved /\ ~IsNone(res.before)) =>
        /\ NewCounters.epochs_trained \in Nat
        /\ NewCounters.global_step \in Nat
        /\ NewCounters.epochs_trained >= Val(res.before).epochs_trained
        /\ NewCounters.global_step >= Val(res.before).global_step

\* C7 amended: each save persists exactly the epochs_trained argument (the
\* trainer's counter when omitted) and the trainer's global_step, unchecked;
\* so a persisted counter is non-negative when the caller's value is, and
\* does not decrease from one save to the next exactly when the caller's
\* value is not below the one persisted before.
C7_PersistsCallersCounters ==
    Saved =>
        LET call == saved[res.filename] IN
        /\ NewCounters.epochs_trained = EffectiveEpochs(call)
        /\ NewCounters.global_step = call.self.global_step
        /\ ~IsNone(res.before) =>
              /\ (NewCounters.epochs_trained >= Val(res.before).epochs_trained)
                   <=> (EffectiveEpochs(call) >= Val(res.before).epochs_trained)
              /\ (NewCounters.global_step >= Val(res.before).global_step)
                   <=> (call.self.global_step >= Val(res.before).global_step)

C7_Witness ==
    /\ Saved
    /\ ~IsNone(res.before)
    /\ NewCounters.epochs_trained < Val(res.before).epochs_trained
    /\ NewCounters.global_step < Val(res.before).global_step

\* C8: after any sequence of saves to a path the file holds exactly the
\* record of the last save; if the file it replaced held optimizer state and
\* the last save wrote none, a load with load_optimizer finds no persisted
\* optimizer state (it logs the notice and hands out a fresh optimizer).
C8_LastSaveOnly ==
    /\ \A p \in DOMAIN saved :
          /\ p \in DOMAIN files
          /\ files[p] = Some(SaveRecord(saved[p].self, saved[p].epochs_arg,
                                        saved[p].skip_modules,
                                        saved[p].save_optimizer))
    /\ (LoadedFromSave /\ res.load_optimizer
           /\ (~SavedCall.save_optimizer \/ IsNone(SavedCall.self.optimizer))) =>
          /\ res.notice
          /\ Val(LoadedTrainer.optimizer).state = 0

C8_Witness ==
    /\ LoadedFromSave
    /\ res.load_optimizer
    /\ SavedCall.hadOptimizer
    /\ ~SavedCall.save_optimizer
    /\ ~IsNone(SavedCall.self.optimizer)
    /\ res.notice

\* The dict a load read
LoadedCheckpoint == Val(files[Val(res.readFrom)])

\* C9: with load_optimizer set a load returns a trainer with a non-null
\* optimizer, which carries the persisted state when the checkpoint has a
\* non-null optimizer_state_dict and is otherwise a fresh one, the notice
\* logged; without load_optimizer the trainer's optimizer is null, whatever
\* the checkpoint holds.
C9_OptimizerRestored ==
    Loaded =>
        LET persisted == Get(LoadedCheckpoint, "optimizer_state_dict", None) IN
        /\ res.load_optimizer =>
              /\ ~IsNone(LoadedTrainer.optimizer)
              /\ Val(LoadedTrainer.optimizer).kind \in {SGD, ADADELTA, MADGRAD}
              /\ ~IsNone(persisted) =>
                    /\ Val(LoadedTrainer.optimizer).state = Val(persisted).state
                    /\ ~res.notice
              /\ IsNone(persisted) =>
                    /\ Val(LoadedTrainer.optimizer).state = 0
                    /\ res.notice
        /\ ~res.load_optimizer =>
              /\ IsNone(LoadedTrainer.optimizer)
              /\ ~res.notice

C9_Witness ==
    /\ Loaded
    /\ res.load_optimizer
    /\ HasOptimizerState(Val(res.readFrom))
    /\ Val(LoadedTrainer.optimizer).state = 1

\* The other cases of C9 happen too
C9_WitnessFresh ==
    /\ Loaded
    /\ res.load_optimizer
    /\ "optimizer_state_dict" \in DOMAIN LoadedCheckpoint
    /\ ~HasOptimizerState(Val(res.readFrom))
    /\ res.notice

C9_WitnessNoOptimizer ==
    /\ Loaded
    /\ ~res.load_optimizer
    /\ HasOptimizerState(Val(res.readFrom))
    /\ IsNone(LoadedTrainer.optimizer)

\* A load read a dict in the flat layout, every key of the layout present
ReadFlat ==
    /\ res.op = "load"
    /\ res.deserialized
    /\ Val(res.readFrom) \in DOMAIN files
    /\ ~IsNone(files[Val(res.readFrom)])
    /\ "params" \notin DOMAIN LoadedCheckpoint
    /\ FlatKeys \subseteq DOMAIN LoadedCheckpoint

\* C10: a checkpoint without params but with model, config, labels and
\* extra_vocab at the top level is accepted and yields the model parameters
\* of the equivalent nested record; epochs_trained, global_step, best_score
\* missing from a record load as 0, 0 and None.
C10_BackwardCompatible ==
    /\ ReadFlat =>
          /\ res.status # "KeyError"
          /\ ModelParams(LoadedCheckpoint)
                = Some(Nested(LoadedCheckpoint)["params"])
          /\ Loaded =>
                get_params(LoadedTrainer.model, TRUE)
                   = [Nested(LoadedCheckpoint)["params"] EXCEPT
                        !.model = Restrict(@, {"weights"})]
    /\ Loaded =>
          /\ "epochs_trained" \notin DOMAIN LoadedCheckpoint
                => LoadedTrainer.epochs_trained = 0
          /\ "global_step" \notin DOMAIN LoadedCheckpoint
                => LoadedTrainer.global_step = 0
          /\ "best_score" \notin DOMAIN LoadedCheckpoint
                => IsNone(LoadedTrainer.best_score)
          /\ "epochs_trained" \in DOMAIN LoadedCheckpoint
                => LoadedTrainer.epochs_trained = LoadedCheckpoint["epochs_trained"]
          /\ "global_step" \in DOMAIN LoadedCheckpoint
                => LoadedTrainer.global_step = LoadedCheckpoint["global_step"]
          /\ "best_score" \in DOMAIN LoadedCheckpoint
                => LoadedTrainer.best_score = LoadedCheckpoint["best_score"]

C10_Witness ==
    /\ ReadFlat
    /\ Loaded
    /\ DOMAIN LoadedCheckpoint = FlatKeys
    /\ LoadedTrainer.epochs_trained = 0
    /\ LoadedTrainer.global_step = 0
    /\ IsNone(LoadedTrainer.best_score)
    /\ LoadedTrainer.model.weights = 3

\* Two names that differ only in the case of their letters
SameIgnoringCase(a, b) ==
    /\ Len(a) = Len(b)
    /\ \A i \in DOMAIN a :
          \/ a[i] = b[i]
          \/ \E k \in DOMAIN UpperChars :
                {a[i], b[i]} = {UpperChars[k], LowerChars[k]}

Recognized == {SGD, ADADELTA, MADGRAD}

\* C3 as stated: build_optimizer raises ValueError, and returns nothing, for
\* every name outside {sgd, adadelta, madgrad}; a name inside the set never
\* raises that ValueError.
C3_UnknownOptimizer ==
    made.op = "build" =>
        /\ made.optim \notin Recognized =>
              /\ made.result.status = "ValueError"
              /\ IsNone(made.result.optimizer)
        /\ made.optim \in Recognized => made.result.status # "ValueError"

\* C3 amended: build_optimizer raises ValueError, and returns nothing, for
\* every name that differs from sgd, adadelta and madgrad by more than the
\* case of its letters; a name that is one of the three up to case never
\* raises that ValueError.
C3_UnknownOptimizerIgnoringCase ==
    made.op = "build" =>
        LET known == \E r \in Recognized : SameIgnoringCase(made.optim, r) IN
        /\ ~known =>
              /\ made.result.status = "ValueError"
              /\ IsNone(made.result.optimizer)
        /\ known =>
              /\ made.result.status # "ValueError"
              /\ made.result.status = "ok" <=> ~IsNone(made.result.optimizer)

C3_Witness ==
    /\ made.op = "build"
    /\ made.optim = <<"S", "G", "D">>
    /\ made.result.status = "ok"
    /\ Val(made.result.optimizer).kind = SGD

\* A name outside the set does raise
C3_WitnessUnknown ==
    /\ made.op = "build"
    /\ made.optim = <<"s", "g", "d", " ">>
    /\ made.result.status = "ValueError"

\* The four labels of the corpus, in the order of their codes 0..3
LabelNames == << Z_MINUS_M, Z_ZERO, Z_AMB, Z_PLUS_M >>
IsLabelName(l) == \E i \in DOMAIN LabelNames : LabelNames[i] = l
LabelCode(l) == (CHOOSE i \in DOMAIN LabelNames : LabelNames[i] = l) - 1

\* The lines read so far
LinesRead == SubSeq(lines, 1, pos - 1)

\* C4: convert_label maps __label__z_minus_m to 0, __label__z_zero to 1,
\* __label__z_amb to 2, __label__z_plus_m to 3 and every other string to -1;
\* every datum read_sentences_and_labels returns has a label in 0..3.
C4_LabelMapping ==
    /\ converted.op = "convert" =>
          /\ converted.label = Z_MINUS_M => converted.value = 0
          /\ converted.label = Z_ZERO => converted.value = 1
          /\ converted.label = Z_AMB => converted.value = 2
          /\ converted.label = Z_PLUS_M => converted.value = 3
          /\ ~IsLabelName(converted.label) => converted.value = -1
    /\ \A i \in DOMAIN sentiment_data : sentiment_data[i].sentiment \in 0..3

C4_Witness ==
    /\ pos > Len(lines)
    /\ converted.op = "convert"
    /\ Len(converted.label) > 0
    /\ ~IsLabelName(converted.label)
    /\ converted.value = -1
    /\ Len(sentiment_data) > 0

\* Each of the four labels is converted
C4_WitnessAmb ==
    converted.op = "convert" /\ converted.label = Z_AMB /\ converted.value = 2

HasSpace(line) == \E i \in DOMAIN line : line[i] = " "
LastSpace(line) ==
    CHOOSE i \in DOMAIN line :
        line[i] = " " /\ \A j \in (i + 1)..Len(line) : line[j] # " "

\* s without the whitespace at its two ends
Trim(s) ==
    LET inked == { i \in DOMAIN s : s[i] \notin Whitespace }
    IN  IF inked = {} THEN <<>>
        ELSE SubSeq(s, CHOOSE i \in inked : \A j \in inked : i <= j,
                       CHOOSE i \in inked : \A j \in inked : i >= j)

\* What stands before, and after, the last space of a line
TextPart(line) == SubSeq(line, 1, LastSpace(line) - 1)
LabelPart(line) == Trim(SubSeq(line, LastSpace(line) + 1, Len(line)))

\* A line whose last space is followed by one of the four labels
EndsWithLabel(line) == HasSpace(line) /\ IsLabelName(LabelPart(line))

\* A line that splits into a non-empty text and one of the four labels
TextAndLabel(line) == EndsWithLabel(line) /\ Len(TextPart(line)) > 0

DatumOf(line) ==
    SentimentDatum(LabelCode(LabelPart(line)), Trim(TextPart(line)))

DataOf(ls) == [i \in 1..Len(ls) |-> DatumOf(ls[i])]

\* C5 as stated: a line with no separator, with a tab for separator, with a
\* space after the label or with an empty text before the label is skipped;
\* a datum is emitted, in order, exactly for the lines that split into a
\* non-empty text plus one of the four labels.
C5_TextAndLabelOnly ==
    sentiment_data = DataOf(SelectSeq(LinesRead, TextAndLabel))

\* C5 amended: a datum is emitted, in order, exactly for the lines that
\* hold a space and whose part after the last space is, stripped, one of the
\* four labels; the text before that space may be empty, and the datum then
\* has the empty text.  Every other line (no space at all, a tab and no
\* space before the label, a space after the label) is skipped, the lines
\* around it are read as usual, and nothing is raised.
C5_SkipsUnlabelled ==
    sentiment_data = DataOf(SelectSeq(LinesRead, EndsWithLabel))

C5_Witness ==
    /\ pos > Len(lines)
    /\ Len(lines) >= 2
    /\ \E k \in DOMAIN lines :
          /\ EndsWithLabel(lines[k])
          /\ TextPart(lines[k]) = <<>>
    /\ \E k \in DOMAIN lines : ~EndsWithLabel(lines[k])
    /\ \E i \in DOMAIN sentiment_data : sentiment_data[i].text = <<>>
    /\ \E i \in DOMAIN sentiment_data : sentiment_data[i].text = <<"c">>

\* The skipped shapes happen: a tab and no space, a space after the label
C5_WitnessTab ==
    /\ pos > Len(lines)
    /\ Len(lines) = 1
    /\ lines[1] = <<"a", "\t">> \o Z_ZERO \o <<"\n">>
    /\ sentiment_data = <<>>

C5_WitnessTrailingSpace ==
    /\ pos > Len(lines)
    /\ Len(lines) = 1
    /\ lines[1] = <<"a", " ">> \o Z_ZERO \o <<" ", "\n">>
    /\ sentiment_data = <<>>

\* What a tokenize call was given and what it gave back
Tokenized == tok.op = "tokenize"
CountAndLabelsKept ==
    /\ Len(tok.out.result) = Len(tok.data)
    /\ \A i \in DOMAIN tok.data :
          tok.out.result[i].sentiment = tok.data[i].sentiment
\* Each datum's text is the tokens the pipeline made of that datum's text
OwnTokens ==
    \A i \in DOMAIN tok.data :
        /\ i \in DOMAIN tok.out.result
        /\ tok.out.result[i].text = Flatten(tok.segs[i])
OneSentenceEach == \A i \in DOMAIN tok.data : Len(tok.segs[i]) = 1

\* C6 as stated: for every list of data and both return shapes, tokenize
\* raises nothing, returns as many data as it was given, the i-th with the
\* i-th label and with the tokens the pipeline produced for the i-th text.
C6_AlwaysPreserves ==
    Tokenized =>
        /\ tok.out.status = "ok"
        /\ CountAndLabelsKept
        /\ OwnTokens

\* C6 amended: in both return shapes, whenever tokenize returns, it returns
\* as many data as it was given, the i-th with the i-th label; and when the
\* pipeline makes exactly one sentence of every text, tokenize does return
\* and the i-th datum holds the tokens the pipeline produced for the i-th
\* text.
C6_PreservesGivenOneSentence ==
    Tokenized =>
        /\ tok.out.status = "ok" => CountAndLabelsKept
        /\ OneSentenceEach =>
              /\ tok.out.status = "ok"
              /\ OwnTokens

C6_Witness ==
    /\ Tokenized
    /\ ~tok.asList
    /\ Len(tok.data) = 2
    /\ OneSentenceEach
    /\ tok.data[1].text # tok.data[2].text
    /\ tok.data[1].sentiment # tok.data[2].sentiment
    /\ tok.out.status = "ok"
    /\ tok.out.result[2].text = <<"x", "y">>

\* The same with a list of documents
C6_WitnessList ==
    /\ Tokenized
    /\ tok.asList
    /\ Len(tok.data) = 2
    /\ OneSentenceEach
    /\ tok.data[1].text # tok.data[2].text
    /\ tok.out.status = "ok"
    /\ tok.out.result[2].text = <<"x", "y">>

\* A text cut into two sentences shifts the sentences of the texts after it
C6_WitnessMisaligned ==
    /\ Tokenized
    /\ ~tok.asList
    /\ tok.out.status = "ok"
    /\ Len(tok.data) = 2
    /\ tok.data[2].text = "z"
    /\ tok.out.result[2].text = <<"y">>

====
